---------------------------- MODULE Spec2Model ----------------------------
(***************************************************************************)
(* A model of live-db-editor: the SQL batch executor of the React client   *)
(* (splitQueries, handleExecuteQuery), the Express server's raw-SQL        *)
(* endpoint and its generic row endpoints (list, insert, update one cell,  *)
(* delete), and the SQLite engine they drive through Prisma.               *)
(*                                                                         *)
(* Text (SQL, identifiers, URL parameters) is a sequence of one-character  *)
(* strings, so that splitting, trimming, pattern checks and parseInt are   *)
(* computed character by character as the code computes them.              *)
(***************************************************************************)
EXTENDS Integers, Sequences, FiniteSets, TLC

VARIABLES
    \* ---- splitQueries applied to one blob (SpecSplit)
    blob,            \* the text handed to splitQueries
    parts,           \* what splitQueries returned
    splitPc,         \* "input" before the call, "done" after it
    \* ---- the database behind Prisma (shared by the server endpoints)
    db,              \* table name -> [cols: column descriptors, rows: set of rows]
    \* ---- one request to the row endpoints of server.js (SpecRows)
    srvPc,           \* "idle", or "responded": a response waits to be delivered
    last,            \* the request last handled and the response to it
    sqlLog,          \* the SQL statements that request sent to the database
    checked,         \* the identifiers that request passed through a sanitize function
    pre,             \* the database as it was before that request
    \* ---- QueryExecutor: one run of handleExecuteQuery (SpecBatch)
    statementsToExecute,  \* splitQueries(sqlQuery) at the click
    stmtIndex,       \* the position of the for loop in statementsToExecute
    totalRowCount,   \* let totalRowCount
    lastResult,      \* let lastResult: None or [statement, data]
    queryFailed,     \* let queryFailed
    loading,         \* useState: loading
    results,         \* useState: results
    error,           \* useState: error
    wire,            \* the fetch in flight: the request, then the response
    sent,            \* the statements this run has sent, in order
    received,        \* the outcomes this run has seen, in order
    tableActions,    \* the calls of onTableAction this run has made
    dbAtClick,       \* the database as it was when this run began
    \* ---- one call of a pure function of the program (SpecCalls)
    call,            \* [fn, arg, ret]: the function, its argument, what it returned
    \* ---- TableEditor of EditableTable.jsx and its requests (SpecTable)
    selectedTable,   \* prop selectedTable: the table chosen, or the empty name
    tableData,       \* useState: data, the committed rows as last received
    tableColumns,    \* useState: columns
    newRows,         \* useState: newRows, the draft rows
    editCache,       \* useState: editCache, row id -> field -> typed text
    tableLoading,    \* useState: loading
    net,             \* the handlers that await a fetch, in the order they began
    started,         \* how many handlers have begun to await a fetch so far
    log              \* what came of the saves: rows inserted, cell saves merged

vars == <<blob, parts, splitPc, db, srvPc, last, sqlLog, checked, pre,
          statementsToExecute, stmtIndex, totalRowCount, lastResult, queryFailed,
          loading, results, error, wire, sent, received, tableActions, dbAtClick,
          call, selectedTable, tableData, tableColumns, newRows, editCache, tableLoading,
          net, started, log>>

splitVars == <<blob, parts, splitPc>>
rowVars   == <<srvPc, last, sqlLog, checked, pre>>

callVars  == <<call>>

tableVars == <<selectedTable, tableData, tableColumns, newRows, editCache, tableLoading,
               net, started, log>>

batchVars == <<statementsToExecute, stmtIndex, totalRowCount, lastResult,
               queryFailed, loading, results, error, wire, sent, received,
               tableActions, dbAtClick>>

\* nothing: no result, no error, no statement
None == [type |-> "none"]

\* no fetch in flight
NoWire == [kind |-> "none"]

\* no call made
NoCall == [fn |-> "none"]

CallIdle == call = NoCall

\* no table chosen
NoTable == <<>>

\* TableEditor as mounted, before a table is chosen
TableIdle ==
    /\ selectedTable = NoTable
    /\ tableData = <<>>
    /\ tableColumns = <<>>
    /\ newRows = <<>>
    /\ editCache = <<>>
    /\ tableLoading = FALSE
    /\ net = <<>>
    /\ started = 0
    /\ log = <<>>

\* no run of handleExecuteQuery under way and none made yet
BatchIdle ==
    /\ statementsToExecute = <<>>
    /\ stmtIndex = -1
    /\ totalRowCount = 0
    /\ lastResult = None
    /\ queryFailed = FALSE
    /\ loading = FALSE
    /\ results = None
    /\ error = None
    /\ wire = NoWire
    /\ sent = <<>>
    /\ received = <<>>
    /\ tableActions = 0
    /\ dbAtClick = <<>>


(***************************************************************************)
(* Bounds of the model.                                                    *)
(***************************************************************************)
MaxBlobLen == 5
MaxId      == 2      \* primary keys range over 1..MaxId
MaxStmts   == 2      \* statements in a batch
MaxPad     == 2      \* white-space characters in front of a statement
MaxNameLen == 3      \* characters of a name given to the identifier check

(***************************************************************************)
(* Text helpers.                                                           *)
(***************************************************************************)
QUOTE == "'"
SEMI  == ";"

\* String.prototype.trim strips white space at both ends
IsSpace(c) == c \in {" ", "\n"}

Trim(s) ==
    LET keep == {i \in 1..Len(s) : ~IsSpace(s[i])}
    IN  IF keep = {} THEN <<>>
        ELSE LET lo == CHOOSE i \in keep : \A j \in keep : i <= j
                 hi == CHOOSE i \in keep : \A j \in keep : j <= i
             IN  SubSeq(s, lo, hi)

\* the part of s after position i
Rest(s, i) == SubSeq(s, i + 1, Len(s))

(***************************************************************************)
(* splitQueries: sql.split(/;(?=(?:(?:[^']){2})*[^']*$)/)                  *)
(*                  .map(s => s.trim()).filter(s => s.length > 0)          *)
(***************************************************************************)
\* the lookahead (?=(?:(?:[^']){2})*[^']*$) on the text after the semicolon:
\* k pairs of non-quote characters, then non-quote characters up to the end
LookaheadAll(rest) == TRUE

Lookahead(rest) ==
    \E k \in 0..(Len(rest) \div 2) :
        /\ \A i \in 1..(2 * k) : rest[i] # QUOTE
        /\ \A i \in (2 * k + 1)..Len(rest) : rest[i] # QUOTE

\* the positions at which String.prototype.split cuts
SplitPoints(sql) ==
    {i \in 1..Len(sql) : sql[i] = SEMI /\ Lookahead(Rest(sql, i))}

\* the pieces between the cut positions pts, in order (the separators removed)
PiecesAt(sql, pts) ==
    LET nth(k) == CHOOSE p \in pts : Cardinality({q \in pts : q < p}) = k - 1
        from(k) == IF k = 1 THEN 1 ELSE nth(k - 1) + 1
        to(k)   == IF k = Cardinality(pts) + 1 THEN Len(sql) ELSE nth(k) - 1
    IN  [k \in 1..(Cardinality(pts) + 1) |-> SubSeq(sql, from(k), to(k))]

MapTrim(ps) == [k \in 1..Len(ps) |-> Trim(ps[k])]

NonEmpty(ps) == SelectSeq(ps, LAMBDA s : Len(s) > 0)

splitQueries(sql) ==
    IF sql = <<>> \/ Trim(sql) = <<>> THEN <<>>
    ELSE NonEmpty(MapTrim(PiecesAt(sql, SplitPoints(sql))))

(***************************************************************************)
(* Values.  A JSON body carries null or a number; Prisma hands an integer  *)
(* of a column declared BIGINT back as a JavaScript bigint.                *)
(***************************************************************************)
NULL      == [t |-> "null"]
Num(n)    == [t |-> "number", v |-> n]
BigInt(n) == [t |-> "bigint", v |-> n]
NaN       == [t |-> "nan"]

(***************************************************************************)
(* Identifiers: sanitizeTableName, sanitizeColumnName, getPrimaryKey.      *)
(***************************************************************************)
LowerCase == <<"a", "b", "c", "d", "e", "f", "g", "h", "i", "j", "k", "l", "m",
               "n", "o", "p", "q", "r", "s", "t", "u", "v", "w", "x", "y", "z">>
UpperCase == <<"A", "B", "C", "D", "E", "F", "G", "H", "I", "J", "K", "L", "M",
               "N", "O", "P", "Q", "R", "S", "T", "U", "V", "W", "X", "Y", "Z">>
Digits    == <<"0", "1", "2", "3", "4", "5", "6", "7", "8", "9">>

IsLower(c) == \E i \in DOMAIN LowerCase : LowerCase[i] = c
IsUpper(c) == \E i \in DOMAIN UpperCase : UpperCase[i] = c
IsDigit(c) == \E i \in DOMAIN Digits : Digits[i] = c

\* /^[a-zA-Z0-9_]*$/: the empty name passes
MatchesIdentifierOrEmpty(name) ==
    \A i \in 1..Len(name) :
        IsLower(name[i]) \/ IsUpper(name[i]) \/ IsDigit(name[i]) \/ name[i] = "_"

\* /^[a-zA-Z0-9_]+$/.test(name)
MatchesIdentifier(name) ==
    /\ Len(name) >= 1
    /\ \A i \in 1..Len(name) :
          IsLower(name[i]) \/ IsUpper(name[i]) \/ IsDigit(name[i]) \/ name[i] = "_"

\* TRUE: the name is returned; FALSE: the function throws
sanitizeTableName(tableName) == MatchesIdentifier(tableName)

sanitizeColumnNameLax(columnName) == TRUE

sanitizeColumnName(columnName) == MatchesIdentifier(columnName)

getPrimaryKey(tableName) == <<"I", "D">>

\* String.prototype.toUpperCase, and SQLite's case-blind identifier comparison
ToUpperChar(c) ==
    IF IsLower(c) THEN UpperCase[CHOOSE i \in DOMAIN LowerCase : LowerCase[i] = c]
    ELSE c

ToUpper(s) == [i \in 1..Len(s) |-> ToUpperChar(s[i])]

\* parseInt(req.params.id): the number its leading digits spell, or NaN
DigitValue(c) == (CHOOSE i \in DOMAIN Digits : Digits[i] = c) - 1

RECURSIVE DigitsValue(_, _)
DigitsValue(s, n) ==
    IF n = 0 THEN 0 ELSE DigitsValue(s, n - 1) * 10 + DigitValue(s[n])

parseInt(s) ==
    LET n == Cardinality({i \in 1..Len(s) : \A j \in 1..i : IsDigit(s[j])})
    IN  IF n = 0 THEN NaN ELSE Num(DigitsValue(s, n))

(***************************************************************************)
(* The SQLite engine behind prisma.$queryRawUnsafe / $executeRawUnsafe,    *)
(* for the statements the row endpoints build.  A table is                 *)
(* [cols |-> <<column descriptors>>, rows |-> set of rows]; identifiers in *)
(* SQL text resolve without regard to letter case.                         *)
(***************************************************************************)
Column(name, type, pk) == [name |-> name, type |-> type, pk |-> pk]

HasTable(d, t) == \E k \in DOMAIN d : ToUpper(k) = ToUpper(t)
TableKey(d, t) == CHOOSE k \in DOMAIN d : ToUpper(k) = ToUpper(t)

ColumnNames(tbl) == {tbl.cols[i].name : i \in DOMAIN tbl.cols}
HasColumn(tbl, c) == \E n \in ColumnNames(tbl) : ToUpper(n) = ToUpper(c)
ColumnKey(tbl, c) == CHOOSE n \in ColumnNames(tbl) : ToUpper(n) = ToUpper(c)
ColumnType(tbl, n) == tbl.cols[CHOOSE i \in DOMAIN tbl.cols : tbl.cols[i].name = n].type
PrimaryKeyOf(tbl) == tbl.cols[CHOOSE i \in DOMAIN tbl.cols : tbl.cols[i].pk].name

EngineOk(d, rows, count) ==
    [ok |-> TRUE, db |-> d, rows |-> rows, count |-> count, error |-> ""]
EngineError(d, msg) ==
    [ok |-> FALSE, db |-> d, rows |-> <<>>, count |-> 0, error |-> msg]

\* rows leave the engine in primary-key (rowid) order
RowsInOrder(tbl, rs) ==
    LET pk == PrimaryKeyOf(tbl)
        nth(k) == CHOOSE r \in rs : Cardinality({q \in rs : q[pk].v < r[pk].v}) = k - 1
    IN  [k \in 1..Cardinality(rs) |-> nth(k)]

\* a row as Prisma returns it: integers of BIGINT columns are bigint values
DriverRow(tbl, r) ==
    [c \in DOMAIN r |->
        IF r[c].t = "number" /\ ColumnType(tbl, c) = "BIGINT" THEN BigInt(r[c].v)
        ELSE r[c]]

DriverRows(tbl, rs) == [k \in 1..Len(rs) |-> DriverRow(tbl, rs[k])]

\* PRAGMA table_info(`t`): one line per column; no line for an unknown table
EngineTableInfo(d, t) ==
    IF HasTable(d, t) THEN EngineOk(d, d[TableKey(d, t)].cols, 0)
    ELSE EngineOk(d, <<>>, 0)

\* SELECT * FROM `t`
EngineSelectAll(d, t) ==
    IF ~HasTable(d, t) THEN EngineError(d, "no such table")
    ELSE LET tbl == d[TableKey(d, t)]
         IN  EngineOk(d, DriverRows(tbl, RowsInOrder(tbl, tbl.rows)), 0)

MaxOf(S) == IF S = {} THEN 0 ELSE CHOOSE x \in S : \A y \in S : y <= x

\* column affinity: a column declared INTEGER or BIGINT stores a text that
\* spells an integer as that integer, and any other value as it is
AllDigits(s) == Len(s) >= 1 /\ \A i \in 1..Len(s) : IsDigit(s[i])

Affinity(type, val) ==
    IF type \in {"INTEGER", "BIGINT"} /\ val.t = "string" /\ AllDigits(val.v)
        THEN Num(DigitsValue(val.v, Len(val.v)))
    ELSE val

\* INSERT INTO `t` (cols) VALUES (?, ...) RETURNING *
EngineInsert(d, t, cols, vals) ==
    IF ~HasTable(d, t) THEN EngineError(d, "no such table")
    ELSE IF cols = <<>> THEN EngineError(d, "syntax error")
    ELSE LET tk  == TableKey(d, t)
             tbl == d[tk]
             pk  == PrimaryKeyOf(tbl)
         IN  IF \E i \in DOMAIN cols : ~HasColumn(tbl, cols[i])
                 THEN EngineError(d, "no such column")
             ELSE LET given(c) ==
                          IF \E i \in DOMAIN cols : ColumnKey(tbl, cols[i]) = c
                              THEN Affinity(ColumnType(tbl, c),
                                            vals[CHOOSE i \in DOMAIN cols :
                                                     ColumnKey(tbl, cols[i]) = c])
                          ELSE NULL
                      auto == MaxOf({r[pk].v : r \in tbl.rows}) + 1
                      key  == IF given(pk) = NULL THEN Num(auto) ELSE given(pk)
                      row  == [c \in ColumnNames(tbl) |-> IF c = pk THEN key ELSE given(c)]
                  IN  IF \E r \in tbl.rows : r[pk] = key
                          THEN EngineError(d, "UNIQUE constraint failed")
                      ELSE EngineOk([d EXCEPT ![tk].rows = @ \cup {row}],
                                    <<DriverRow(tbl, row)>>, 1)

\* UPDATE `t` SET `col` = ? WHERE `whereCol` = ? RETURNING *
EngineUpdate(d, t, col, val, whereCol, whereVal) ==
    IF ~HasTable(d, t) THEN EngineError(d, "no such table")
    ELSE LET tk  == TableKey(d, t)
             tbl == d[tk]
             pk  == PrimaryKeyOf(tbl)
         IN  IF ~HasColumn(tbl, col) \/ ~HasColumn(tbl, whereCol)
                 THEN EngineError(d, "no such column")
             ELSE LET tgt == ColumnKey(tbl, col)
                      hit == {r \in tbl.rows : r[ColumnKey(tbl, whereCol)] = whereVal}
                      v   == Affinity(ColumnType(tbl, tgt), val)
                      new == {[r EXCEPT ![tgt] = v] : r \in hit}
                  IN  IF tgt = pk /\ hit # {} /\ v = NULL
                          THEN EngineError(d, "datatype mismatch")
                      ELSE IF /\ tgt = pk
                              /\ \/ Cardinality(hit) > 1
                                 \/ \E r \in tbl.rows \ hit : hit # {} /\ r[pk] = v
                          THEN EngineError(d, "UNIQUE constraint failed")
                      ELSE EngineOk([d EXCEPT ![tk].rows = (@ \ hit) \cup new],
                                    DriverRows(tbl, RowsInOrder(tbl, new)),
                                    Cardinality(hit))

\* DELETE FROM `t` WHERE `whereCol` = ?
EngineDelete(d, t, whereCol, whereVal) ==
    IF ~HasTable(d, t) THEN EngineError(d, "no such table")
    ELSE LET tk  == TableKey(d, t)
             tbl == d[tk]
         IN  IF ~HasColumn(tbl, whereCol) THEN EngineError(d, "no such column")
             ELSE LET hit == {r \in tbl.rows : r[ColumnKey(tbl, whereCol)] = whereVal}
                  IN  EngineOk([d EXCEPT ![tk].rows = @ \ hit], <<>>, Cardinality(hit))

(***************************************************************************)
(* The row endpoints of server.js.  Each handler is a function of the      *)
(* database and the request to an outcome: the HTTP status and body, the   *)
(* database afterwards, the SQL statements sent (verb, table and the       *)
(* column names put into the SQL text, in order) and the identifiers that  *)
(* passed a sanitize function on the way.                                  *)
(***************************************************************************)
Sql(verb, table, cols) == [verb |-> verb, table |-> table, cols |-> cols]

Outcome(status, body, d, sql, chk) ==
    [status |-> status, body |-> body, db |-> d, sql |-> sql, checked |-> chk]

ErrorBody(msg)  == [kind |-> "error", error |-> msg]
RowBody(r)      == [kind |-> "row", row |-> r]
EmptyObject     == [kind |-> "empty"]
NoBody          == [kind |-> "none"]

\* (typeof row[key] === 'bigint') ? Number(row[key]) : row[key]
ToJsonSafe(r) == [c \in DOMAIN r |-> IF r[c].t = "bigint" THEN Num(r[c].v) ELSE r[c]]

\* res.json(x): JSON.stringify throws a TypeError on a bigint
Serializable(r) == \A c \in DOMAIN r : r[c].t # "bigint"

\* res.json(rows[0] || {}) inside the handler's try block
FirstRowResponse(status, res, sql, chk) ==
    IF res.rows = <<>> THEN Outcome(status, EmptyObject, res.db, sql, chk)
    ELSE IF ~Serializable(res.rows[1])
        THEN Outcome(500, ErrorBody("Do not know how to serialize a BigInt"),
                     res.db, sql, chk)
    ELSE Outcome(status, RowBody(res.rows[1]), res.db, sql, chk)

\* app.get('/api/data/:tableName')
ListOutcome(d, t) ==
    IF ~sanitizeTableName(t)
        THEN Outcome(500, ErrorBody("Invalid table name format"), d, <<>>, {})
    ELSE LET info == EngineTableInfo(d, t)
             sel  == EngineSelectAll(d, t)
             sql  == <<Sql("PRAGMA", t, <<>>), Sql("SELECT", t, <<>>)>>
         IN  IF ~sel.ok THEN Outcome(500, ErrorBody(sel.error), d, sql, {t})
             ELSE Outcome(200,
                          [kind |-> "table",
                           columns |-> [i \in DOMAIN info.rows |->
                                           [field |-> info.rows[i].name,
                                            type  |-> info.rows[i].type,
                                            pk    |-> info.rows[i].pk]],
                           data |-> [k \in DOMAIN sel.rows |-> ToJsonSafe(sel.rows[k])]],
                          d, sql, {t})

\* app.post('/api/data/:tableName'); body: the entries of req.body in key order
InsertOutcome(d, t, body) ==
    IF ~sanitizeTableName(t)
        THEN Outcome(500, ErrorBody("Invalid table name format"), d, <<>>, {})
    ELSE LET newData == SelectSeq(body, LAMBDA e : e.key # getPrimaryKey(t))
             columns == [i \in DOMAIN newData |-> newData[i].key]
             values  == [i \in DOMAIN newData |-> newData[i].val]
             bad     == {i \in DOMAIN columns : ~sanitizeColumnName(columns[i])}
         IN  IF bad # {}
                 THEN Outcome(500, ErrorBody("Invalid column name"), d, <<>>,
                              {t} \cup {columns[j] : j \in {i \in DOMAIN columns :
                                                             \A b \in bad : i < b}})
             ELSE LET sql == <<Sql("INSERT", t, columns)>>
                      chk == {t} \cup {columns[i] : i \in DOMAIN columns}
                      res == EngineInsert(d, t, columns, values)
                  IN  IF ~res.ok THEN Outcome(500, ErrorBody(res.error), d, sql, chk)
                      ELSE FirstRowResponse(201, res, sql, chk)

\* app.put('/api/data/:tableName/:id')
UpdateOutcome(d, t, idParam, body) ==
    IF ~sanitizeTableName(t)
        THEN Outcome(500, ErrorBody("Invalid table name format"), d, <<>>, {})
    ELSE LET pkName == getPrimaryKey(t)
             id     == parseInt(idParam)
         IN  IF body = <<>>
                 THEN Outcome(500, ErrorBody("undefined is not iterable"), d, <<>>, {t})
             ELSE LET key   == body[1].key
                      value == body[1].val
                  IN  IF ~sanitizeColumnName(key)
                          THEN Outcome(500, ErrorBody("Invalid column name"), d, <<>>, {t})
                      ELSE LET sql == <<Sql("UPDATE", t, <<key, pkName>>)>>
                               chk == {t, key}
                               res == EngineUpdate(d, t, key, value, pkName, id)
                           IN  IF ~res.ok
                                   THEN Outcome(500, ErrorBody(res.error), d, sql, chk)
                               ELSE FirstRowResponse(200, res, sql, chk)

\* app.delete('/api/data/:tableName/:id')
DeleteOutcome(d, t, idParam) ==
    IF ~sanitizeTableName(t)
        THEN Outcome(500, ErrorBody("Invalid table name format"), d, <<>>, {})
    ELSE LET pkName == getPrimaryKey(t)
             id     == parseInt(idParam)
             sql    == <<Sql("DELETE", t, <<pkName>>)>>
             res    == EngineDelete(d, t, pkName, id)
         IN  IF ~res.ok THEN Outcome(500, ErrorBody(res.error), d, sql, {t})
             ELSE Outcome(204, NoBody, res.db, sql, {t})

(***************************************************************************)
(* SpecRows: requests to the row endpoints, one at a time, against a       *)
(* database of two tables.  Four table shapes occur: the primary key is    *)
(* named ID (P), id (u), or pid, with (L) or without (n) a further column  *)
(* named ID.  A fifth table (B) has a column declared BIGINT.              *)
(***************************************************************************)
T_P   == <<"P">>
T_u   == <<"u">>
T_L   == <<"L">>
T_n   == <<"n">>
T_B   == <<"B">>
T_bad == <<"P", ";">>

c_ID  == <<"I", "D">>
c_id  == <<"i", "d">>
c_pid == <<"p", "i", "d">>
c_a   == <<"a">>
c_z   == <<"z">>
c_bad == <<"a", ";">>

TableP == [cols |-> <<Column(c_ID, "INTEGER", TRUE), Column(c_a, "INTEGER", FALSE)>>,
           rows |-> {(c_ID :> Num(1)) @@ (c_a :> Num(1))}]
TableU == [cols |-> <<Column(c_id, "INTEGER", TRUE), Column(c_a, "INTEGER", FALSE)>>,
           rows |-> {(c_id :> Num(1)) @@ (c_a :> Num(1))}]
TableL == [cols |-> <<Column(c_pid, "INTEGER", TRUE), Column(c_ID, "INTEGER", FALSE)>>,
           rows |-> {(c_pid :> Num(1)) @@ (c_ID :> Num(1)),
                     (c_pid :> Num(2)) @@ (c_ID :> Num(1))}]
TableN == [cols |-> <<Column(c_pid, "INTEGER", TRUE), Column(c_a, "INTEGER", FALSE)>>,
           rows |-> {(c_pid :> Num(1)) @@ (c_a :> Num(1))}]

TableB == [cols |-> <<Column(c_ID, "INTEGER", TRUE), Column(c_a, "BIGINT", FALSE)>>,
           rows |-> {(c_ID :> Num(1)) @@ (c_a :> Num(1))}]

Databases == {(T_P :> TableP) @@ (T_u :> TableU),
              (T_L :> TableL) @@ (T_n :> TableN),
              (T_B :> TableB)}

TableParams == {T_P, T_u, T_L, T_n, T_B, T_bad}

\* ids in URLs: "1" .. the first id no row can have, and "1x"
IdParams == {<<Digits[i + 1]>> : i \in 1..(MaxId + 1)} \cup {<<"1", "x">>}

Entry(key, val) == [key |-> key, val |-> val]

InsertBodies ==
    {<<Entry(c_a, Num(1))>>,
     <<Entry(c_a, NULL)>>,
     <<Entry(c_ID, Num(1)), Entry(c_a, Num(1))>>,
     <<Entry(c_id, Num(1)), Entry(c_a, Num(1))>>,
     <<Entry(c_pid, Num(2))>>,
     <<Entry(c_ID, Num(1))>>,
     <<Entry(c_z, Num(1))>>,
     <<Entry(c_bad, Num(1))>>,
     <<Entry(c_a, Num(1)), Entry(c_bad, Num(1))>>}

UpdateBodies ==
    {<<Entry(c_a, Num(1))>>,
     <<Entry(c_a, NULL)>>,
     <<Entry(c_ID, Num(1))>>,
     <<Entry(c_ID, NULL)>>,
     <<Entry(c_z, Num(1))>>,
     <<Entry(c_bad, Num(1))>>,
     <<Entry(c_a, Num(1)), Entry(c_bad, Num(1))>>,
     <<>>}

Request(op, table, id, body) == [op |-> op, table |-> table, id |-> id, body |-> body]

NoRequest == [req |-> Request("none", <<>>, <<>>, <<>>), status |-> 0, body |-> NoBody]

\* the bound on primary keys, as a guard on what a request may leave behind
InBounds(d) ==
    \A k \in DOMAIN d : \A r \in d[k].rows : r[PrimaryKeyOf(d[k])].v <= MaxId

Handle(req, out) ==
    /\ srvPc = "idle"
    /\ InBounds(out.db)
    /\ db' = out.db
    /\ last' = [req |-> req, status |-> out.status, body |-> out.body]
    /\ sqlLog' = out.sql
    /\ checked' = out.checked
    /\ pre' = db
    /\ srvPc' = "responded"
    /\ UNCHANGED <<splitVars, batchVars, callVars, tableVars>>

ListRows ==
    \E t \in TableParams :
        Handle(Request("list", t, <<>>, <<>>), ListOutcome(db, t))

InsertRow ==
    \E t \in TableParams : \E body \in InsertBodies :
        Handle(Request("insert", t, <<>>, body), InsertOutcome(db, t, body))

UpdateCell ==
    \E t \in TableParams : \E id \in IdParams : \E body \in UpdateBodies :
        Handle(Request("update", t, id, body), UpdateOutcome(db, t, id, body))

DeleteRow ==
    \E t \in TableParams : \E id \in IdParams :
        Handle(Request("delete", t, id, <<>>), DeleteOutcome(db, t, id))

\* the response reaches the caller; the server is free for the next request
Deliver ==
    /\ srvPc = "responded"
    /\ srvPc' = "idle"
    /\ last' = NoRequest
    /\ sqlLog' = <<>>
    /\ checked' = {}
    /\ pre' = db
    /\ UNCHANGED <<db, splitVars, batchVars, callVars, tableVars>>

RowsInit ==
    /\ db \in Databases
    /\ srvPc = "idle"
    /\ last = NoRequest
    /\ sqlLog = <<>>
    /\ checked = {}
    /\ pre = db
    /\ blob = <<>>
    /\ parts = <<>>
    /\ splitPc = "input"
    /\ BatchIdle
    /\ CallIdle
    /\ TableIdle

RowsNext == ListRows \/ InsertRow \/ UpdateCell \/ DeleteRow \/ Deliver

SpecRows == RowsInit /\ [][RowsNext]_vars

(***************************************************************************)
(* Raw SQL.  The statements of the batches below, as the user types them,  *)
(* and what SQLite does with each.                                         *)
(***************************************************************************)
SP == <<" ">>
NL == <<"\n">>

K_CREATE   == <<"C", "R", "E", "A", "T", "E">>
K_ALTER    == <<"A", "L", "T", "E", "R">>
K_DROP     == <<"D", "R", "O", "P">>
K_INSERT   == <<"I", "N", "S", "E", "R", "T">>
K_UPDATE   == <<"U", "P", "D", "A", "T", "E">>
K_DELETE   == <<"D", "E", "L", "E", "T", "E">>
K_TRUNCATE == <<"T", "R", "U", "N", "C", "A", "T", "E">>
K_SELECT   == <<"S", "E", "L", "E", "C", "T">>
K_FROM     == <<"F", "R", "O", "M">>

c_literal == <<QUOTE, SEMI, QUOTE>>

\* SELECT * FROM P
q_select  == K_SELECT \o SP \o <<"*">> \o SP \o K_FROM \o SP \o T_P
\* DELETE FROM P
q_delete  == K_DELETE \o SP \o K_FROM \o SP \o T_P
\* INSERT INTO P (a) VALUES (1)
q_insert  == K_INSERT \o SP \o <<"I", "N", "T", "O">> \o SP \o T_P \o SP
                 \o <<"(">> \o c_a \o <<")", " ", "V", "A", "L", "U", "E", "S",
                      " ", "(", "1", ")">>
\* SELECT z          (no such column)
q_bad     == K_SELECT \o SP \o c_z
\* SELECT ';'        (a semicolon inside a literal)
q_literal == K_SELECT \o SP \o c_literal
\* drop table P      (keywords in lower case)
q_drop    == <<"d", "r", "o", "p", " ", "t", "a", "b", "l", "e">> \o SP \o T_P

Str(s) == [t |-> "string", v |-> s]

StartsWith(s, prefix) ==
    Len(s) >= Len(prefix) /\ SubSeq(s, 1, Len(prefix)) = prefix

\* SQLite compiles the text up to the first semicolon that is outside a literal
FirstStatement(text) ==
    LET ends == {i \in 1..Len(text) :
                    /\ text[i] = SEMI
                    /\ Cardinality({j \in 1..(i - 1) : text[j] = QUOTE}) % 2 = 0}
    IN  IF ends = {} THEN Trim(text)
        ELSE Trim(SubSeq(text, 1, (CHOOSE i \in ends : \A j \in ends : i <= j) - 1))

\* prisma.$executeRawUnsafe(query) / prisma.$queryRawUnsafe(query)
EngineRaw(d, text) ==
    LET s   == ToUpper(FirstStatement(text))
        has == HasTable(d, T_P)
        tbl == d[T_P]
    IN  IF s = ToUpper(q_literal)
            THEN EngineOk(d, <<(c_literal :> Str(<<SEMI>>))>>, 0)
        ELSE IF s = ToUpper(q_bad) THEN EngineError(d, "no such column: z")
        ELSE IF s \notin {ToUpper(q_select), ToUpper(q_delete), ToUpper(q_insert),
                          ToUpper(q_drop)}
            THEN EngineError(d, "syntax error")
        ELSE IF ~has THEN EngineError(d, "no such table: P")
        ELSE IF s = ToUpper(q_select) THEN EngineSelectAll(d, T_P)
        ELSE IF s = ToUpper(q_delete)
            THEN EngineOk([d EXCEPT ![T_P].rows = {}], <<>>, Cardinality(tbl.rows))
        ELSE IF s = ToUpper(q_insert)
            THEN [EngineInsert(d, T_P, <<c_a>>, <<Num(1)>>) EXCEPT !.rows = <<>>]
        ELSE EngineOk([k \in DOMAIN d \ {T_P} |-> d[k]], <<>>, 0)

(***************************************************************************)
(* app.post('/api/query'): one statement per request.                      *)
(***************************************************************************)
MutationKeywords ==
    {K_CREATE, K_ALTER, K_DROP, K_INSERT, K_UPDATE, K_DELETE, K_TRUNCATE}

\* the keywords are looked for in the text as typed, without toUpperCase
isExecuteCaseSensitive(query) ==
    \E k \in MutationKeywords : StartsWith(Trim(query), k)

isExecute(query) ==
    \E k \in MutationKeywords : StartsWith(ToUpper(Trim(query)), k)

\* the columns of the result table: Object.keys(rows[0]), in column order
RowKeys(d, row) ==
    IF HasTable(d, T_P) /\ DOMAIN row = ColumnNames(d[T_P])
        THEN [i \in DOMAIN d[T_P].cols |-> d[T_P].cols[i].name]
    ELSE <<CHOOSE c \in DOMAIN row : TRUE>>

\* the response: [ok, status, data] and the database afterwards
QueryOutcome(d, query) ==
    IF query = <<>>
        THEN [ok |-> FALSE, status |-> 400, db |-> d,
              data |-> [error |-> "SQL query is required."]]
    ELSE LET res == EngineRaw(d, query)
         IN  IF ~res.ok
                 THEN [ok |-> FALSE, status |-> 400, db |-> d,
                       data |-> [error |-> res.error]]
             ELSE IF isExecute(query)
                 THEN [ok |-> TRUE, status |-> 200, db |-> res.db,
                       data |-> [rowCount |-> res.count]]
             ELSE IF \E k \in DOMAIN res.rows : ~Serializable(res.rows[k])
                 THEN [ok |-> FALSE, status |-> 400, db |-> res.db,
                       data |-> [error |-> "Do not know how to serialize a BigInt"]]
             ELSE [ok |-> TRUE, status |-> 200, db |-> res.db,
                   data |-> [rows |-> res.rows,
                             columns |-> IF Len(res.rows) > 0
                                             THEN RowKeys(d, res.rows[1]) ELSE <<>>]]

(***************************************************************************)
(* QueryExecutor: handleExecuteQuery.                                      *)
(***************************************************************************)

\* `Query execution failed on statement: "${statement}". Error: ${err.message}`
FailureError(statement, msg) ==
    [type |-> "error", message |-> "Query execution failed on statement",
     statement |-> statement, cause |-> msg]

isDDL(statement) ==
    \/ StartsWith(ToUpper(statement), K_CREATE)
    \/ StartsWith(ToUpper(statement), K_DROP)
    \/ StartsWith(ToUpper(statement), K_ALTER)

\* if (data.rowCount !== undefined) totalRowCount += data.rowCount
AddRowCountOrRows(total, data) ==
    IF "rowCount" \in DOMAIN data THEN total + data.rowCount
    ELSE total + Len(data.rows)

AddRowCount(total, data) ==
    IF "rowCount" \in DOMAIN data THEN total + data.rowCount ELSE total

\* the for loop goes on to statement i + 1: the catch block breaks out of it
LoopContinuesNoBreak(ok, i, n) == i < n

LoopContinues(ok, i, n) == ok /\ i < n

\* a message of the success box: its text and the statement count it quotes
Message(text, n) == [text |-> text, n |-> n]

\* the summary of the statements that ran is shown after a failure too
FinalResultsDespiteFailure(failed, lastRes, statements, total, shown) ==
    IF lastRes # None
        THEN IF "rows" \in DOMAIN lastRes.data
                 THEN [type |-> "data", data |-> lastRes.data.rows,
                       columns |-> lastRes.data.columns]
             ELSE [type |-> "success",
                   message |-> IF isDDL(lastRes.statement)
                                   THEN Message("DDL command(s) executed successfully.", 0)
                               ELSE IF Len(statements) > 1
                                   THEN Message("queries executed successfully.",
                                                Len(statements))
                               ELSE Message("Query executed successfully.", 0),
                   rowCount |-> total]
    ELSE IF Len(statements) > 0
        THEN [type |-> "success",
              message |-> Message("queries executed successfully. Rows affected:",
                                  Len(statements)),
              rowCount |-> total]
    ELSE shown

\* the summary carries the count of the last statement only
FinalResultsLastCount(failed, lastRes, statements, total, shown) ==
    IF failed THEN shown
    ELSE IF lastRes # None
        THEN IF "rows" \in DOMAIN lastRes.data
                 THEN [type |-> "data", data |-> lastRes.data.rows,
                       columns |-> lastRes.data.columns]
             ELSE [type |-> "success",
                   message |-> IF isDDL(lastRes.statement)
                                   THEN Message("DDL command(s) executed successfully.", 0)
                               ELSE IF Len(statements) > 1
                                   THEN Message("queries executed successfully.",
                                                Len(statements))
                               ELSE Message("Query executed successfully.", 0),
                   rowCount |-> lastRes.data.rowCount]
    ELSE shown

\* what is displayed once the loop is over (lines 83-114)
FinalResults(failed, lastRes, statements, total, shown) ==
    IF failed THEN shown
    ELSE IF lastRes # None
        THEN IF "rows" \in DOMAIN lastRes.data
                 THEN [type |-> "data", data |-> lastRes.data.rows,
                       columns |-> lastRes.data.columns]
             ELSE [type |-> "success",
                   message |-> IF isDDL(lastRes.statement)
                                   THEN Message("DDL command(s) executed successfully.", 0)
                               ELSE IF Len(statements) > 1
                                   THEN Message("queries executed successfully.",
                                                Len(statements))
                               ELSE Message("Query executed successfully.", 0),
                   rowCount |-> total]
    ELSE IF Len(statements) > 0
        THEN [type |-> "success",
              message |-> Message("queries executed successfully. Rows affected:",
                                  Len(statements)),
              rowCount |-> total]
    ELSE shown

(***************************************************************************)
(* SpecBatch: the user types a batch and clicks Execute; the statements go *)
(* to /api/query one by one.  A step of the handler runs from one await to *)
(* the next: the click up to the first fetch, and each response up to the  *)
(* next fetch or to the end of the handler.                                *)
(***************************************************************************)
StmtTexts == {q_select, q_delete, q_insert, q_bad, q_literal, q_drop}

\* each statement typed on a line of its own, ended by a semicolon
RECURSIVE JoinStatements(_)
JoinStatements(ss) ==
    IF ss = <<>> THEN <<>>
    ELSE Head(ss) \o <<SEMI>> \o NL \o JoinStatements(Tail(ss))

Batches == UNION {[1..n -> StmtTexts] : n \in 0..MaxStmts}

Blobs == {JoinStatements(ss) : ss \in Batches}

\* const statementsToExecute = splitQueries(sqlQuery), for every text typed
StatementsOf == [b \in Blobs |-> splitQueries(b)]

RequestOnWire(sql) == [kind |-> "request", sql |-> sql]

\* the user types a text and clicks Execute, which is enabled when nothing is
\* loading and the text has a statement (line 179): handleExecuteQuery up to
\* the first await fetch, lines 24-43
Execute ==
    /\ ~loading
    /\ stmtIndex = -1
    /\ \E b \in Blobs :
          LET st == StatementsOf[b]
          IN  /\ st # <<>>
              /\ blob' = b
              /\ statementsToExecute' = st
              /\ wire' = RequestOnWire(st[1])
              /\ sent' = <<st[1]>>
    /\ loading' = TRUE
    /\ results' = None
    /\ error' = None
    /\ totalRowCount' = 0
    /\ lastResult' = None
    /\ queryFailed' = FALSE
    /\ stmtIndex' = 1
    /\ received' = <<>>
    /\ tableActions' = 0
    /\ dbAtClick' = db
    /\ UNCHANGED <<db, parts, splitPc, rowVars, callVars, tableVars>>

\* app.post('/api/query') handles the statement on the wire
QueryEndpoint ==
    /\ wire.kind = "request"
    /\ LET out == QueryOutcome(db, wire.sql)
       IN  /\ InBounds(out.db)
           /\ db' = out.db
           /\ wire' = [kind |-> "response", ok |-> out.ok, data |-> out.data]
    /\ UNCHANGED <<statementsToExecute, stmtIndex, totalRowCount, lastResult,
                   queryFailed, loading, results, error, sent, received,
                   tableActions, dbAtClick, splitVars, rowVars, callVars, tableVars>>

\* the rest of the loop body once the fetch has settled (ok: the response is
\* a success; otherwise msg is the message of the error thrown), then the next
\* fetch or the end of the handler: lines 49-114
Settle(ok, data, msg) ==
    LET i         == stmtIndex
        n         == Len(statementsToExecute)
        statement == statementsToExecute[i]
        total     == IF ok THEN AddRowCount(totalRowCount, data) ELSE totalRowCount
        lastRes   == IF ok THEN [statement |-> statement, data |-> data] ELSE lastResult
        failed    == queryFailed \/ ~ok
    IN  /\ loading
        /\ received' = Append(received, [statement |-> statement, ok |-> ok, data |-> data,
                                         reached |-> wire.kind = "response"])
        /\ totalRowCount' = total
        /\ lastResult' = lastRes
        /\ queryFailed' = failed
        /\ error' = IF ok THEN error ELSE FailureError(statement, msg)
        /\ tableActions' = IF ok /\ isDDL(statement) THEN tableActions + 1 ELSE tableActions
        /\ IF LoopContinues(ok, i, n)
              THEN /\ stmtIndex' = i + 1
                   /\ wire' = RequestOnWire(statementsToExecute[i + 1])
                   /\ sent' = Append(sent, statementsToExecute[i + 1])
                   /\ UNCHANGED <<loading, results>>
              ELSE /\ stmtIndex' = i
                   /\ wire' = NoWire
                   /\ loading' = FALSE
                   /\ results' = FinalResults(failed, lastRes, statementsToExecute,
                                              total, results)
                   /\ UNCHANGED sent
        /\ UNCHANGED <<statementsToExecute, dbAtClick, db, splitVars, rowVars, callVars, tableVars>>

\* await fetch / await response.json() resolve with the server's answer
Receive ==
    /\ wire.kind = "response"
    /\ Settle(wire.ok, wire.data,
              IF "error" \in DOMAIN wire.data THEN wire.data.error
              ELSE "Failed to execute query.")

\* await fetch rejects: the request never reached the server
FetchFails ==
    /\ wire.kind = "request"
    /\ Settle(FALSE, [error |-> "Failed to fetch"], "Failed to fetch")

\* await fetch rejects: the server handled the request, its answer was lost
ResponseLost ==
    /\ wire.kind = "response"
    /\ Settle(FALSE, [error |-> "Failed to fetch"], "Failed to fetch")

\* handleExecuteQuery has returned: its local variables are gone
Return ==
    /\ ~loading
    /\ wire = NoWire
    /\ stmtIndex # -1
    /\ statementsToExecute' = <<>>
    /\ stmtIndex' = -1
    /\ totalRowCount' = 0
    /\ lastResult' = None
    /\ queryFailed' = FALSE
    /\ sent' = <<>>
    /\ received' = <<>>
    /\ tableActions' = 0
    /\ dbAtClick' = <<>>
    /\ UNCHANGED <<loading, results, error, wire, db, splitVars, rowVars, callVars, tableVars>>

BatchInit ==
    /\ db = (T_P :> TableP)
    /\ BatchIdle
    /\ CallIdle
    /\ TableIdle
    /\ blob = <<>>
    /\ parts = <<>>
    /\ splitPc = "input"
    /\ srvPc = "idle"
    /\ last = NoRequest
    /\ sqlLog = <<>>
    /\ checked = {}
    /\ pre = <<>>

BatchNext ==
    Execute \/ QueryEndpoint \/ Receive \/ FetchFails \/ ResponseLost \/ Return

SpecBatch == BatchInit /\ [][BatchNext]_vars

(***************************************************************************)
(* SpecHandler: SpecBatch, and handleExecuteQuery called on a text without *)
(* statements.  The Execute button is disabled for such a text (line 179), *)
(* so this is the handler called as a function, not a click.               *)
(***************************************************************************)
\* texts that hold no statement
EmptyBlobs == {<<>>, <<" ">>, <<SEMI>>, <<SEMI, " ", SEMI, "\n">>}

\* { message: 'No valid SQL statements found.', type: 'error' }
NoStatementsError ==
    [type |-> "error", message |-> "No valid SQL statements found.",
     statement |-> <<>>, cause |-> ""]

\* the handler clears what is shown before it looks at the statements
ResultsCleared(shown) == None

\* results when the handler returns at line 29: setResults was not called
ResultsUntouched(shown) == shown

\* handleExecuteQuery on a text with no statement: lines 24-30
ExecuteNothing ==
    /\ ~loading
    /\ stmtIndex = -1
    /\ \E b \in EmptyBlobs :
          /\ splitQueries(b) = <<>>
          /\ blob' = b
    /\ statementsToExecute' = <<>>
    /\ stmtIndex' = 0
    /\ error' = NoStatementsError
    /\ results' = ResultsUntouched(results)
    /\ UNCHANGED <<totalRowCount, lastResult, queryFailed, loading, wire, sent,
                   received, tableActions, dbAtClick, db, parts, splitPc, rowVars, callVars, tableVars>>

HandlerNext == BatchNext \/ ExecuteNothing

SpecHandler == BatchInit /\ [][HandlerNext]_vars

(***************************************************************************)
(* SpecCalls: one call of a pure function of the server, on an argument    *)
(* drawn from a bounded set: the classification of a statement by          *)
(* app.post('/api/query'), and the two identifier checks.                  *)
(***************************************************************************)
ToLowerChar(c) ==
    IF IsUpper(c) THEN LowerCase[CHOOSE i \in DOMAIN UpperCase : UpperCase[i] = c]
    ELSE c

ToLower(s) == [i \in 1..Len(s) |-> ToLowerChar(s[i])]

\* all sequences over S of length at most n
SeqsUpTo(S, n) == UNION {[1..k -> S] : k \in 0..n}

\* white space in front of a statement
Pads == SeqsUpTo({" ", "\n"}, MaxPad)

\* first words: the seven keywords in three spellings, each keyword with a
\* letter more and with a letter less, and other words
FirstWords ==
    LET spellings(k) == {k, ToLower(k), <<k[1]>> \o ToLower(Tail(k))}
    IN  UNION {spellings(k) \cup {k \o <<"X">>, ToLower(k) \o <<"s">>,
                                  SubSeq(k, 1, Len(k) - 1)} : k \in MutationKeywords}
        \cup {K_SELECT, ToLower(K_SELECT), <<"x">>, <<>>}

\* what follows the first word
Tails == {<<>>, SP \o T_P, <<"(">>}

StatementInputs == {p \o w \o t : p \in Pads, w \in FirstWords, t \in Tails}

NameAlphabet == {"a", "Z", "0", "_", QUOTE, " ", SEMI, "-", "\n"}

NameInputs == SeqsUpTo(NameAlphabet, MaxNameLen)

Call(fn, arg) == [fn |-> fn, arg |-> arg, ret |-> <<>>]

\* what a check does with a name: it returns it, or throws the message
Checked(ok, message) == IF ok THEN "returned" ELSE message

\* const isExecute = upperQuery.startsWith('CREATE') || ...
Classify ==
    /\ call.fn = "isExecute"
    /\ call.ret = <<>>
    /\ call' = [call EXCEPT !.ret = <<isExecute(call.arg)>>]
    /\ UNCHANGED <<db, splitVars, rowVars, batchVars, tableVars>>

\* sanitizeTableName(name) and sanitizeColumnName(name)
Sanitize ==
    /\ call.fn = "sanitize"
    /\ call.ret = <<>>
    /\ call' = [call EXCEPT !.ret =
                  <<[table  |-> Checked(sanitizeTableName(call.arg),
                                        "Invalid table name format"),
                     column |-> Checked(sanitizeColumnName(call.arg),
                                        "Invalid column name")]>>]
    /\ UNCHANGED <<db, splitVars, rowVars, batchVars, tableVars>>

CallsInit ==
    /\ call \in {Call("isExecute", s) : s \in StatementInputs}
                \cup {Call("sanitize", n) : n \in NameInputs}
    /\ db = <<>>
    /\ blob = <<>>
    /\ parts = <<>>
    /\ splitPc = "input"
    /\ srvPc = "idle"
    /\ last = NoRequest
    /\ sqlLog = <<>>
    /\ checked = {}
    /\ pre = <<>>
    /\ BatchIdle
    /\ TableIdle

CallsNext == Classify \/ Sanitize

SpecCalls == CallsInit /\ [][CallsNext]_vars

(***************************************************************************)
(* SpecSplit: splitQueries on every blob over a four-character alphabet.   *)
(***************************************************************************)
SplitAlphabet == {"a", " ", SEMI, QUOTE}

SplitBlobs == UNION {[1..n -> SplitAlphabet] : n \in 0..MaxBlobLen}

SplitInit ==
    /\ blob \in SplitBlobs
    /\ parts = <<>>
    /\ splitPc = "input"
    /\ db = <<>>
    /\ srvPc = "idle"
    /\ last = NoRequest
    /\ sqlLog = <<>>
    /\ checked = {}
    /\ pre = <<>>
    /\ BatchIdle
    /\ CallIdle
    /\ TableIdle

SplitRun ==
    /\ splitPc = "input"
    /\ parts' = splitQueries(blob)
    /\ splitPc' = "done"
    /\ UNCHANGED <<blob, db, rowVars, batchVars, callVars, tableVars>>

SplitNext == SplitRun

SpecSplit == SplitInit /\ [][SplitNext]_vars

(***************************************************************************)
(* TableEditor (EditableTable.jsx): the table on the page, its draft rows, *)
(* and the handlers that send requests to the row endpoints.  A handler    *)
(* that awaits a fetch is an entry of net: its request, then the server's  *)
(* response.  The server handles one request in one step; a fetch can be   *)
(* rejected before or after the server has handled its request.  The       *)
(* message banner (showMessage) is left out.                               *)
(***************************************************************************)
MaxTasks    == 2     \* handlers that come to await a fetch, all in all
MaxDrafts   == 1     \* draft rows on the page at the same time

\* const pkName = 'id'
editorPkName == <<"i", "d">>

c_isNew     == <<"i", "s", "N", "e", "w">>
c_createdAt == <<"c", "r", "e", "a", "t", "e", "d", "A", "t">>
c_updatedAt == <<"u", "p", "d", "a", "t", "e", "d", "A", "t">>

Undefined == [t |-> "undefined"]
Bool(b)   == [t |-> "boolean", v |-> b]

\* row[key] of a JavaScript object
Get(row, key) == IF key \in DOMAIN row THEN row[key] ELSE Undefined

\* the decimal digits of a natural number
RECURSIVE DigitsOf(_)
DigitsOf(n) == IF n < 10 THEN <<Digits[n + 1]>>
               ELSE DigitsOf(n \div 10) \o <<Digits[(n % 10) + 1]>>

\* String(v), and the text of v inside a template literal
JsString(v) ==
    CASE v.t = "string"    -> v.v
      [] v.t = "number"    -> DigitsOf(v.v)
      [] v.t = "bigint"    -> DigitsOf(v.v)
      [] v.t = "boolean"   -> IF v.v THEN <<"t", "r", "u", "e">>
                              ELSE <<"f", "a", "l", "s", "e">>
      [] v.t = "null"      -> <<"n", "u", "l", "l">>
      [] v.t = "undefined" -> <<"u", "n", "d", "e", "f", "i", "n", "e", "d">>
      [] v.t = "nan"       -> <<"N", "a", "N">>

\* typeof v
TypeOf(v) ==
    CASE v.t = "null" -> "object"
      [] v.t = "nan"  -> "number"
      [] OTHER        -> v.t

\* !!v
Truthy(v) ==
    CASE v.t \in {"null", "undefined", "nan"} -> FALSE
      [] v.t = "boolean" -> v.v
      [] v.t = "string"  -> v.v # <<>>
      [] OTHER           -> v.v # 0

\* the type names that occur, letter by letter: the names SQLite's PRAGMA
\* table_info gives for the columns of a Prisma schema, and Prisma's own
TypeText ==
    [INTEGER  |-> <<"I", "N", "T", "E", "G", "E", "R">>,
     BIGINT   |-> <<"B", "I", "G", "I", "N", "T">>,
     REAL     |-> <<"R", "E", "A", "L">>,
     DECIMAL  |-> <<"D", "E", "C", "I", "M", "A", "L">>,
     BOOLEAN  |-> <<"B", "O", "O", "L", "E", "A", "N">>,
     TEXT     |-> <<"T", "E", "X", "T">>,
     Int      |-> <<"I", "n", "t">>,
     BigInt   |-> <<"B", "i", "g", "I", "n", "t">>,
     Float    |-> <<"F", "l", "o", "a", "t">>,
     Decimal  |-> <<"D", "e", "c", "i", "m", "a", "l">>,
     Boolean  |-> <<"B", "o", "o", "l", "e", "a", "n">>,
     String   |-> <<"S", "t", "r", "i", "n", "g">>]

\* s.includes(t): t occurs in s, letter case and all
IncludesText(s, t) ==
    \E o \in 0..(Len(s) - Len(t)) : SubSeq(s, o + 1, o + Len(t)) = t

\* columnType.includes(part)
Includes(columnType, part) == IncludesText(TypeText[columnType], TypeText[part])

\* the first test with the letter case of the text taken as typed
IsNullLikeAsTyped(value) ==
    \/ value = NULL
    \/ value = Str(<<>>)
    \/ JsString(value) = <<"n", "u", "l", "l">>

\* value === null || value === '' || String(value).toLowerCase() === 'null'
IsNullLike(value) ==
    \/ value = NULL
    \/ value = Str(<<>>)
    \/ ToLower(JsString(value)) = <<"n", "u", "l", "l">>

\* safeTypeConvert(value, columnType); the texts of the model spell no fraction
safeTypeConvert(value, columnType) ==
    IF IsNullLike(value) THEN NULL
    ELSE IF Includes(columnType, "Boolean")
        THEN LET lowerValue == ToLower(JsString(value))
             IN  IF lowerValue \in {<<"t", "r", "u", "e">>, <<"1">>, <<"t">>,
                                    <<"y", "e", "s">>} THEN Bool(TRUE)
                 ELSE IF lowerValue \in {<<"f", "a", "l", "s", "e">>, <<"0">>, <<"f">>,
                                         <<"n", "o">>} THEN Bool(FALSE)
                 ELSE Bool(Truthy(value))
    ELSE IF \/ Includes(columnType, "Int")
            \/ Includes(columnType, "Float")
            \/ Includes(columnType, "Decimal")
        THEN LET parsedValue == parseInt(JsString(value))
             IN  IF parsedValue # NaN THEN parsedValue ELSE NULL
    ELSE Str(JsString(value))

\* `temp-${Date.now()}`
TempId(n) == Str(<<"t", "e", "m", "p", "-">> \o DigitsOf(n))

\* the test that never takes an id for a draft's
IsTempNever(id) == FALSE

\* String(id).startsWith('temp-')
IsTemp(id) == StartsWith(JsString(id), <<"t", "e", "m", "p", "-">>)

\* { ...row, ...updatedRow }
Merge(row, updatedRow) ==
    [key \in DOMAIN row \cup DOMAIN updatedRow |->
        IF key \in DOMAIN updatedRow THEN updatedRow[key] ELSE row[key]]

\* { ...row, [field]: value }
Put(row, field, value) ==
    [key \in DOMAIN row \cup {field} |-> IF key = field THEN value ELSE row[key]]

\* delete newState[id]
Without(obj, key) == [k \in DOMAIN obj \ {key} |-> obj[k]]

RemoveAt(s, k) == SubSeq(s, 1, k - 1) \o SubSeq(s, k + 1, Len(s))

\* the body of a response as a row: res.json(row) or res.json({})
RowOf(body) == IF body.kind = "row" THEN body.row ELSE <<>>

\* const combinedData = [...data, ...newRows]
combinedData == tableData \o newRows

\* what a fetch resolves with before the server has answered
NoResponse == [status |-> 0, body |-> NoBody]

\* a handler at its await: kind is the handler, phase "call" its own request
\* and phase "fetchData" the request of the fetchData it awaits; id is the
\* id the handler was called with (for handleSaveNewRows the id of the draft
\* it posts), rest the drafts it has still to post
Task(kind, phase, req, id, rest) ==
    [kind |-> kind, phase |-> phase, stage |-> "request", req |-> req,
     resp |-> NoResponse, id |-> id, rest |-> rest]

\* a handler comes to its first await
Begin(task) ==
    /\ started < MaxTasks
    /\ started' = started + 1
    /\ net' = Append(net, task)

\* fetch(`${API_BASE_URL}/data/${tableName}`)
FetchRequest(tableName) == Request("list", tableName, <<>>, <<>>)

\* the database behind the editor: table u, whose primary key is named id,
\* and table K, whose only column is a primary key named ID
T_K == <<"K">>

TableK == [cols |-> <<Column(c_ID, "INTEGER", TRUE)>>,
           rows |-> {(c_ID :> Num(1))}]

\* the options of the select: Select Table and the tables of the database
TableChoices == {NoTable} \cup DOMAIN db

\* the texts typed into a cell, trimmed
CellTexts == {<<>>, <<"2">>}

\* onChange of the select, and the effect that loads the table chosen
SelectTable ==
    \E t \in TableChoices :
        /\ t # selectedTable
        /\ selectedTable' = t
        /\ IF t = NoTable
               THEN UNCHANGED <<tableLoading, net, started>>
           ELSE /\ tableLoading' = TRUE
                /\ Begin(Task("fetchData", "fetchData", FetchRequest(t), NULL, <<>>))
        /\ UNCHANGED <<tableData, tableColumns, newRows, editCache, log, db,
                       splitVars, rowVars, batchVars, callVars>>

\* the draft that handleAddRow builds from the columns
DraftRow(cols, tempId) ==
    LET fields == {cols[i].field : i \in DOMAIN cols} \ {editorPkName}
        typeOf(f) == cols[CHOOSE i \in DOMAIN cols : cols[i].field = f].type
        blank(f) == IF \/ Includes(typeOf(f), "Int")
                       \/ Includes(typeOf(f), "Float")
                       \/ Includes(typeOf(f), "Decimal") THEN NULL
                    ELSE IF Includes(typeOf(f), "Boolean") THEN Bool(FALSE)
                    ELSE Str(<<>>)
    IN  [key \in {editorPkName, c_isNew} \cup fields |->
            IF key \in fields THEN blank(key)
            ELSE IF key = editorPkName THEN tempId
            ELSE Bool(TRUE)]

\* Add Row; Date.now() is a time that no draft on the page carries, and the
\* log forgets the draft that carried it before
handleAddRow ==
    /\ ~tableLoading
    /\ selectedTable # NoTable
    /\ Len(newRows) < MaxDrafts
    /\ LET free == {n \in 1..MaxDrafts :
                       \A i \in DOMAIN newRows : Get(newRows[i], editorPkName) # TempId(n)}
           now  == CHOOSE n \in free : \A o \in free : n <= o
       IN  /\ newRows' = Append(newRows, DraftRow(tableColumns, TempId(now)))
           /\ log' = SelectSeq(log, LAMBDA e : e.id # TempId(now))
    /\ UNCHANGED <<selectedTable, tableData, tableColumns, editCache, tableLoading,
                   net, started, db, splitVars, rowVars, batchVars, callVars>>

\* handleCellEdit(id, field, value): the drafts and the edit cache afterwards
handleCellEdit(id, field, value) ==
    IF IsTemp(id)
        THEN [newRows |-> [i \in DOMAIN newRows |->
                              IF Get(newRows[i], editorPkName) = id
                                  THEN Put(newRows[i], field, value)
                              ELSE newRows[i]],
              editCache |-> editCache]
    ELSE [newRows |-> newRows,
          editCache |-> Put(editCache, JsString(id),
                            Put(IF JsString(id) \in DOMAIN editCache
                                    THEN editCache[JsString(id)] ELSE <<>>,
                                field, value))]

\* handleSaveCell(id, field, value) up to its await: "return" at an early
\* return, "skip" when the value is the committed one, else "send"
handleSaveCell(id, field, value) ==
    LET column    == tableColumns[CHOOSE i \in DOMAIN tableColumns :
                                      tableColumns[i].field = field]
        converted == safeTypeConvert(value, column.type)
        found     == {i \in DOMAIN tableData : Get(tableData[i], editorPkName) = id}
        lastCommittedRow == tableData[CHOOSE i \in found : \A j \in found : i <= j]
    IN  IF IsTemp(id) THEN [step |-> "return"]
        ELSE IF /\ found # {}
                /\ JsString(Get(lastCommittedRow, field)) = JsString(converted)
                /\ TypeOf(converted) = TypeOf(Get(lastCommittedRow, field))
            THEN [step |-> "skip"]
        ELSE [step |-> "send",
              task |-> Task("handleSaveCell", "call",
                            Request("update", selectedTable, JsString(id),
                                    <<Entry(field, converted)>>),
                            id, <<>>)]

\* onBlur of an editable cell: handleCellEdit, then handleSaveCell unless
\* the row is marked isNew
onBlur ==
    \E k \in DOMAIN combinedData : \E c \in DOMAIN tableColumns : \E text \in CellTexts :
        LET row    == combinedData[k]
            field  == tableColumns[c].field
            id     == Get(row, editorPkName)
            edited == handleCellEdit(id, field, Str(text))
            save   == IF Truthy(Get(row, c_isNew)) THEN [step |-> "return"]
                      ELSE handleSaveCell(id, field, Str(text))
        IN  /\ field # editorPkName
            /\ newRows' = edited.newRows
            /\ IF save.step = "return"
                   THEN /\ editCache' = edited.editCache
                        /\ UNCHANGED <<tableLoading, net, started>>
               ELSE IF save.step = "skip"
                   THEN /\ editCache' = Without(edited.editCache, JsString(id))
                        /\ UNCHANGED <<tableLoading, net, started>>
               ELSE /\ editCache' = Without(edited.editCache, JsString(id))
                    /\ tableLoading' = TRUE
                    /\ Begin(save.task)
            /\ UNCHANGED <<selectedTable, tableData, tableColumns, log, db,
                           splitVars, rowVars, batchVars, callVars>>

\* finalData of handleSaveNewRows for one draft
FinalData(newRow, cols) ==
    LET dataToSave == Without(Without(newRow, editorPkName), c_isNew)
        kept == SelectSeq([i \in DOMAIN cols |-> cols[i]],
                          LAMBDA col : /\ col.field # editorPkName
                                       /\ Get(dataToSave, col.field) # Undefined)
    IN  [j \in DOMAIN kept |->
            Entry(kept[j].field,
                  safeTypeConvert(Str(JsString(Get(dataToSave, kept[j].field))),
                                  kept[j].type))]

\* fetch(`${API_BASE_URL}/data/${selectedTable}`, { method: 'POST', ... })
PostRequest(tableName, body) == Request("insert", tableName, <<>>, body)

\* Save New Rows: the first draft is posted; the loop goes on in Resume
handleSaveNewRows ==
    /\ ~tableLoading
    /\ newRows # <<>>
    /\ LET posts == [i \in DOMAIN newRows |->
                        [id   |-> Get(newRows[i], editorPkName),
                         body |-> FinalData(newRows[i], tableColumns)]]
       IN  Begin(Task("handleSaveNewRows", "call",
                      PostRequest(selectedTable, Head(posts).body),
                      Head(posts).id, Tail(posts)))
    /\ tableLoading' = TRUE
    /\ UNCHANGED <<selectedTable, tableData, tableColumns, newRows, editCache, log, db,
                   splitVars, rowVars, batchVars, callVars>>

\* the delete button of a row, the confirm dialog answered with OK
handleDeleteRow ==
    \E k \in DOMAIN combinedData :
        LET id == Get(combinedData[k], editorPkName)
        IN  /\ IF IsTemp(id)
                   THEN /\ newRows' = SelectSeq(newRows,
                                         LAMBDA row : Get(row, editorPkName) # id)
                        /\ UNCHANGED <<tableLoading, net, started>>
               ELSE /\ tableLoading' = TRUE
                    /\ Begin(Task("handleDeleteRow", "call",
                                  Request("delete", selectedTable, JsString(id), <<>>),
                                  id, <<>>))
                    /\ UNCHANGED newRows
            /\ UNCHANGED <<selectedTable, tableData, tableColumns, editCache, log, db,
                           splitVars, rowVars, batchVars, callVars>>

\* the server's answer to a request; a URL with an empty table name meets
\* no route
Answer(d, req) ==
    IF req.table = NoTable THEN Outcome(404, NoBody, d, <<>>, {})
    ELSE CASE req.op = "list"   -> ListOutcome(d, req.table)
           [] req.op = "insert" -> InsertOutcome(d, req.table, req.body)
           [] req.op = "update" -> UpdateOutcome(d, req.table, req.id, req.body)
           [] req.op = "delete" -> DeleteOutcome(d, req.table, req.id)

\* an entry of the log: a row was inserted for the draft id, or the response
\* to a cell save of the row id was merged, while another save of that row
\* was in flight or not
Logged(what, id, overlap) == [what |-> what, id |-> id, overlap |-> overlap]

\* the server handles a request that is on its way
Serve ==
    \E k \in DOMAIN net :
        LET out == Answer(db, net[k].req)
        IN  /\ net[k].stage = "request"
            /\ InBounds(out.db)
            /\ db' = out.db
            /\ net' = [net EXCEPT ![k].stage = "response",
                                  ![k].resp = [status |-> out.status, body |-> out.body]]
            /\ log' = IF net[k].req.op = "insert" /\ out.db # db
                          THEN Append(log, Logged("inserted", net[k].id, FALSE))
                      ELSE log
            /\ UNCHANGED <<selectedTable, tableData, tableColumns, newRows, editCache,
                           tableLoading, started, splitVars, rowVars, batchVars, callVars>>

\* fetchData after its await: the try block on an ok response, else the catch
fetchDataSettles(ok, body) ==
    /\ IF ok
           THEN /\ tableData' = body.data
                /\ tableColumns' = SelectSeq(body.columns,
                                       LAMBDA col : /\ col.field # c_createdAt
                                                    /\ col.field # c_updatedAt)
                /\ newRows' = <<>>
       ELSE /\ tableData' = <<>>
            /\ tableColumns' = <<>>
            /\ UNCHANGED newRows
    /\ tableLoading' = FALSE

\* the handler of net[k] goes on after its await: the fetch resolved with a
\* response whose ok flag is ok, or was rejected (ok is FALSE)
Resume(k, ok, body) ==
    LET t == net[k]
        again == [net EXCEPT ![k] = Task(t.kind, "fetchData",
                                         FetchRequest(t.req.table), t.id, <<>>)]
    IN  /\ IF t.phase = "fetchData"
               THEN /\ fetchDataSettles(ok, body)
                    /\ net' = RemoveAt(net, k)
           ELSE IF t.kind = "handleSaveCell"
               THEN IF ok
                        THEN /\ tableData' =
                                    [i \in DOMAIN tableData |->
                                        IF Get(tableData[i], editorPkName) = t.id
                                            THEN Merge(tableData[i], RowOf(body))
                                        ELSE tableData[i]]
                             /\ tableLoading' = FALSE
                             /\ net' = RemoveAt(net, k)
                             /\ UNCHANGED <<tableColumns, newRows>>
                    ELSE IF t.req.table = NoTable
                        THEN /\ tableLoading' = FALSE
                             /\ net' = RemoveAt(net, k)
                             /\ UNCHANGED <<tableData, tableColumns, newRows>>
                    ELSE /\ tableLoading' = TRUE
                         /\ net' = again
                         /\ UNCHANGED <<tableData, tableColumns, newRows>>
           ELSE IF t.kind = "handleSaveNewRows"
               THEN IF ~ok
                        THEN /\ tableLoading' = FALSE
                             /\ net' = RemoveAt(net, k)
                             /\ UNCHANGED <<tableData, tableColumns, newRows>>
                    ELSE IF t.rest # <<>>
                        THEN /\ net' = [net EXCEPT ![k] =
                                           Task(t.kind, "call",
                                                PostRequest(t.req.table, Head(t.rest).body),
                                                Head(t.rest).id, Tail(t.rest))]
                             /\ UNCHANGED <<tableData, tableColumns, newRows, tableLoading>>
                    ELSE IF t.req.table = NoTable
                        THEN /\ tableLoading' = FALSE
                             /\ net' = RemoveAt(net, k)
                             /\ UNCHANGED <<tableData, tableColumns, newRows>>
                    ELSE /\ tableLoading' = TRUE
                         /\ net' = again
                         /\ UNCHANGED <<tableData, tableColumns, newRows>>
           ELSE /\ tableData' = IF ok
                                    THEN SelectSeq(tableData,
                                             LAMBDA row : Get(row, editorPkName) # t.id)
                                 ELSE tableData
                /\ tableLoading' = FALSE
                /\ net' = RemoveAt(net, k)
                /\ UNCHANGED <<tableColumns, newRows>>
        /\ log' = IF t.kind = "handleSaveCell" /\ t.phase = "call" /\ ok
                      THEN Append(log, Logged("saved", t.id,
                                              \E j \in DOMAIN net \ {k} :
                                                  /\ net[j].kind = "handleSaveCell"
                                                  /\ net[j].phase = "call"
                                                  /\ net[j].req.table = t.req.table
                                                  /\ net[j].id = t.id))
                  ELSE log
        /\ UNCHANGED <<selectedTable, editCache, started, db,
                       splitVars, rowVars, batchVars, callVars>>

\* response.ok
IsOk(status) == status >= 200 /\ status <= 299

\* a response arrives
TableReceive ==
    \E k \in DOMAIN net :
        /\ net[k].stage = "response"
        /\ Resume(k, IsOk(net[k].resp.status), net[k].resp.body)

\* a fetch is rejected: the request or the response is lost
TableFetchFails ==
    \E k \in DOMAIN net : Resume(k, FALSE, NoBody)

TableInit ==
    /\ db = (T_u :> TableU) @@ (T_K :> TableK)
    /\ TableIdle
    /\ srvPc = "idle"
    /\ last = NoRequest
    /\ sqlLog = <<>>
    /\ checked = {}
    /\ pre = <<>>
    /\ blob = <<>>
    /\ parts = <<>>
    /\ splitPc = "input"
    /\ BatchIdle
    /\ CallIdle

TableNext ==
    \/ SelectTable
    \/ handleAddRow
    \/ onBlur
    \/ handleSaveNewRows
    \/ handleDeleteRow
    \/ Serve
    \/ TableReceive
    \/ TableFetchFails

SpecTable == TableInit /\ [][TableNext]_vars

(***************************************************************************)
(* SpecLoaded: the editor with table u selected and its rows on the page,  *)
(* the selection left alone from then on.  Table u holds one row or none,  *)
(* and started counts the handlers from this moment.                       *)
(***************************************************************************)
\* the columns the server lists for a table, as fetchData keeps them
ColumnsShownFor(t) ==
    SelectSeq(ListOutcome(db, t).body.columns,
              LAMBDA col : col.field # c_createdAt /\ col.field # c_updatedAt)

LoadedInit ==
    /\ db \in {(T_u :> TableU), (T_u :> [TableU EXCEPT !.rows = {}])}
    /\ selectedTable = T_u
    /\ tableData = ListOutcome(db, T_u).body.data
    /\ tableColumns = ColumnsShownFor(T_u)
    /\ newRows = <<>>
    /\ editCache = <<>>
    /\ tableLoading = FALSE
    /\ net = <<>>
    /\ started = 0
    /\ log = <<>>
    /\ srvPc = "idle"
    /\ last = NoRequest
    /\ sqlLog = <<>>
    /\ checked = {}
    /\ pre = <<>>
    /\ blob = <<>>
    /\ parts = <<>>
    /\ splitPc = "input"
    /\ BatchIdle
    /\ CallIdle

LoadedNext ==
    \/ handleAddRow
    \/ onBlur
    \/ handleSaveNewRows
    \/ handleDeleteRow
    \/ Serve
    \/ TableReceive
    \/ TableFetchFails

SpecLoaded == LoadedInit /\ [][LoadedNext]_vars

(***************************************************************************)
(* SpecConvert: safeTypeConvert called once, on a raw value and a declared *)
(* type.                                                                   *)
(***************************************************************************)
ConvertTexts ==
    {<<>>, <<"n", "u", "l", "l">>, <<"N", "U", "L", "L">>, <<"N", "u", "l", "l">>,
     <<"0">>, <<"2">>, <<"x">>, <<"t", "r", "u", "e">>, <<"n", "o">>}

ConvertValues == {NULL} \cup {Str(s) : s \in ConvertTexts}

ConvertTypes == DOMAIN TypeText

Convert ==
    /\ call.fn = "safeTypeConvert"
    /\ call.ret = <<>>
    /\ call' = [call EXCEPT !.ret = <<safeTypeConvert(call.arg.value,
                                                      call.arg.columnType)>>]
    /\ UNCHANGED <<db, splitVars, rowVars, batchVars, tableVars>>

ConvertInit ==
    /\ call \in {Call("safeTypeConvert", [value |-> v, columnType |-> ty]) :
                     v \in ConvertValues, ty \in ConvertTypes}
    /\ db = <<>>
    /\ blob = <<>>
    /\ parts = <<>>
    /\ splitPc = "input"
    /\ srvPc = "idle"
    /\ last = NoRequest
    /\ sqlLog = <<>>
    /\ checked = {}
    /\ pre = <<>>
    /\ BatchIdle
    /\ TableIdle

ConvertNext == Convert

SpecConvert == ConvertInit /\ [][ConvertNext]_vars

(***************************************************************************)
(* Reading a blob the way SQL does: a quote opens a literal when an even   *)
(* number of quotes precedes it and closes one otherwise (a doubled quote  *)
(* closes and reopens at once).                                            *)
(***************************************************************************)
QuotesBefore(s, i) == Cardinality({j \in 1..(i - 1) : s[j] = QUOTE})

InsideLiteral(s, i) == s[i] # QUOTE /\ QuotesBefore(s, i) % 2 = 1

InsideTerminatedLiteral(s, i) ==
    InsideLiteral(s, i) /\ \E j \in (i + 1)..Len(s) : s[j] = QUOTE

\* the literals of s: <<p, q>> with p an opening quote and q the quote closing it
Literals(s) ==
    {pq \in (1..Len(s)) \X (1..Len(s)) :
        /\ pq[1] < pq[2]
        /\ s[pq[1]] = QUOTE /\ s[pq[2]] = QUOTE
        /\ QuotesBefore(s, pq[1]) % 2 = 0
        /\ \A j \in (pq[1] + 1)..(pq[2] - 1) : s[j] # QUOTE}

IsSubSeq(t, s) ==
    \E o \in 0..(Len(s) - Len(t)) : SubSeq(s, o + 1, o + Len(t)) = t

\* C4's blobs: N >= 1 statements, each non-empty and ended by a semicolon, all
\* literals closed and no semicolon inside one
SemiPositions(s) == {i \in 1..Len(s) : s[i] = SEMI}

TerminatedStatements(s) ==
    LET ps == MapTrim(PiecesAt(s, SemiPositions(s)))
    IN  /\ SemiPositions(s) # {}
        /\ QuotesBefore(s, Len(s) + 1) % 2 = 0
        /\ \A i \in SemiPositions(s) : ~InsideLiteral(s, i)
        /\ ps[Len(ps)] = <<>>
        /\ \A k \in 1..(Len(ps) - 1) : ps[k] # <<>>

ExpectedStatements(s) ==
    LET ps == MapTrim(PiecesAt(s, SemiPositions(s)))
    IN  SubSeq(ps, 1, Len(ps) - 1)

\* C4: for a blob of N semicolon-terminated, non-empty statements with no
\* semicolon inside a quoted literal, splitQueries returns exactly those N
\* statements, trimmed, in their original order.
C4_SplitReturnsEveryStatement ==
    (splitPc = "done" /\ TerminatedStatements(blob))
        => parts = ExpectedStatements(blob)

\* C5: a semicolon inside a terminated single-quoted literal is never a split
\* point, and every terminated literal that holds a semicolon is found whole
\* inside one returned statement.
C5_NoSplitInsideLiteral ==
    splitPc = "done" =>
        /\ \A i \in 1..Len(blob) :
              (blob[i] = SEMI /\ InsideTerminatedLiteral(blob, i))
                  => i \notin SplitPoints(blob)
        /\ \A pq \in Literals(blob) :
              (\E i \in (pq[1] + 1)..(pq[2] - 1) : blob[i] = SEMI)
                  => \E m \in 1..Len(parts) :
                        IsSubSeq(SubSeq(blob, pq[1], pq[2]), parts[m])

\* a literal holding a semicolon was kept whole while the blob was split elsewhere
C5_Witness ==
    /\ splitPc = "done"
    /\ Len(parts) >= 2
    /\ \E pq \in Literals(blob) :
          /\ \E i \in (pq[1] + 1)..(pq[2] - 1) : blob[i] = SEMI
          /\ \E m \in 1..Len(parts) : IsSubSeq(SubSeq(blob, pq[1], pq[2]), parts[m])

(***************************************************************************)
(* Properties of the row endpoints (SpecRows).                             *)
(***************************************************************************)
Responded(op) == srvPc = "responded" /\ last.req.op = op

\* the table a request names, as it was before the request
TargetExists == HasTable(pre, last.req.table)
TargetKey    == TableKey(pre, last.req.table)
TargetBefore == pre[TargetKey]
TargetAfter  == db[TargetKey]

\* the row id of the request, read as the server reads it
RequestId == parseInt(last.req.id)

\* no row of the target table has the request's id as its primary key
NoRowHasRequestId ==
    \A r \in TargetBefore.rows : r[PrimaryKeyOf(TargetBefore)] # RequestId

\* the column names a request brings: every key of an insert body, the key of
\* the entry an update addresses
RequestColumns ==
    IF last.req.op = "insert"
        THEN {last.req.body[i].key : i \in DOMAIN last.req.body}
    ELSE IF last.req.op = "update" /\ last.req.body # <<>>
        THEN {last.req.body[1].key}
    ELSE {}

C6_UpdateOfMissingRowFails ==
    (Responded("update") /\ TargetExists /\ NoRowHasRequestId)
        => (last.status # 200 /\ last.body.kind = "error")

\* C7: delete on a row id that matches no row of the table fails, and leaves the
\* table's rows unchanged.
C7_DeleteOfMissingRowFails ==
    (Responded("delete") /\ TargetExists /\ NoRowHasRequestId)
        => (last.status # 204 /\ last.body.kind = "error"
            /\ TargetAfter.rows = TargetBefore.rows)

\* C8: whatever the primary-key column is called, no column of the INSERT that
\* insert sends is the table's primary-key column.
C8_InsertNeverSendsPrimaryKey ==
    (Responded("insert") /\ TargetExists) =>
        \A i \in DOMAIN sqlLog : \A j \in DOMAIN sqlLog[i].cols :
            HasColumn(TargetBefore, sqlLog[i].cols[j])
                => ColumnKey(TargetBefore, sqlLog[i].cols[j]) # PrimaryKeyOf(TargetBefore)

\* C9: insert with a well-formed field name that is not a column of the table
\* fails, and no row is added.
C9_InsertOfUnknownColumnFails ==
    (/\ Responded("insert")
     /\ TargetExists
     /\ \E c \in RequestColumns : MatchesIdentifier(c) /\ ~HasColumn(TargetBefore, c))
        => (last.status = 500 /\ last.body.kind = "error" /\ db = pre)

\* C10: a successful updateField changes only the named column of the row whose
\* primary key is the row id; every other row and every other table is unchanged.
C10_UpdateChangesOneCellOfOneRow ==
    (Responded("update") /\ last.status = 200 /\ last.body.kind = "row") =>
        LET pk  == PrimaryKeyOf(TargetBefore)
            col == ColumnKey(TargetBefore, last.req.body[1].key)
        IN  /\ \A k \in DOMAIN pre : k # TargetKey => db[k] = pre[k]
            /\ DOMAIN db = DOMAIN pre
            /\ TargetAfter.cols = TargetBefore.cols
            /\ \A r \in TargetBefore.rows :
                  IF r[pk] = RequestId
                      THEN [r EXCEPT ![col] = last.req.body[1].val] \in TargetAfter.rows
                      ELSE r \in TargetAfter.rows
            /\ Cardinality(TargetAfter.rows) = Cardinality(TargetBefore.rows)

\* the rows a list of the request's table returns from database d
ListedRows(d) ==
    LET out == ListOutcome(d, last.req.table)
    IN  IF out.status = 200 THEN {out.body.data[k] : k \in DOMAIN out.body.data}
        ELSE {}

\* C11: after a successful delete of a row id that a row of the table has, a
\* list of the table returns the rows it returned before except that row.
C11_DeletedRowGoneOthersKept ==
    (Responded("delete") /\ last.status = 204 /\ TargetExists /\ ~NoRowHasRequestId)
        => /\ ListOutcome(db, last.req.table).status = 200
           /\ ListedRows(db) = {r \in ListedRows(pre) :
                                   r[PrimaryKeyOf(TargetBefore)] # RequestId}

\* the rows the request added to its table
RowsAdded == TargetAfter.rows \ TargetBefore.rows

\* C20: no row leaves the server with a 64-bit integer in it: the rows of a
\* list are JSON-safe, and an insert or an update that changed the table
\* answers with the row, its 64-bit integers turned into numbers.
C20_RowsLeaveServerJsonSafe ==
    /\ (Responded("list") /\ last.status = 200)
          => \A k \in DOMAIN last.body.data : Serializable(last.body.data[k])
    /\ (Responded("insert") /\ db # pre)
          => /\ last.status = 201
             /\ last.body.kind = "row"
             /\ last.body.row \in RowsAdded
    /\ (Responded("update") /\ db # pre)
          => /\ last.status = 200
             /\ last.body.kind = "row"
             /\ Serializable(last.body.row)


\* the position of the opening quote that no later quote closes, or 0
UnterminatedQuote(s) ==
    IF QuotesBefore(s, Len(s) + 1) % 2 = 0 THEN 0
    ELSE CHOOSE i \in 1..Len(s) : s[i] = QUOTE /\ \A j \in (i + 1)..Len(s) : s[j] # QUOTE

\* C27: in a blob whose last single-quoted literal is never closed, no
\* semicolon after the unterminated opening quote is a split point.
C27_NoSplitAfterUnterminatedQuote ==
    (splitPc = "done" /\ UnterminatedQuote(blob) > 0)
        => \A i \in (UnterminatedQuote(blob) + 1)..Len(blob) :
              blob[i] = SEMI => i \notin SplitPoints(blob)

(***************************************************************************)
(* Claims about the table editor (SpecTable).                              *)
(***************************************************************************)
\* the temporary ids that drafts carry
DraftIds == {TempId(n) : n \in 1..MaxDrafts}

\* a step changes the cells of the drafts on the page and neither adds nor
\* removes a draft
DraftEdited == Len(newRows') = Len(newRows) /\ newRows' # newRows

\* C12: no cell update is ever sent for a draft row: every update on the wire
\* comes from handleSaveCell and carries the id of a committed row, every
\* insert on the wire comes from handleSaveNewRows, the edit cache never holds
\* an entry for a draft, and a step that edits the cell of a draft changes the
\* drafts only: it sends nothing and leaves the committed rows, the edit cache
\* and the database alone, and the draft keeps its id and its mark.
C12_DraftsAreSavedOnlyByTheBatchAction ==
    /\ [](/\ \A k \in DOMAIN net :
                /\ net[k].req.op = "update"
                      => /\ net[k].kind = "handleSaveCell"
                         /\ net[k].id \notin DraftIds
                         /\ \A d \in DraftIds : net[k].req.id # JsString(d)
                /\ net[k].req.op = "insert" => net[k].kind = "handleSaveNewRows"
          /\ \A d \in DraftIds : JsString(d) \notin DOMAIN editCache)
    /\ [][DraftEdited =>
             /\ UNCHANGED <<net, started, log, db, tableData, tableColumns, editCache,
                            tableLoading, selectedTable>>
             /\ \A i \in DOMAIN newRows :
                   /\ Get(newRows'[i], editorPkName) = Get(newRows[i], editorPkName)
                   /\ Get(newRows'[i], c_isNew) = Get(newRows[i], c_isNew)]_vars

\* a draft holds a typed text, and its drafts are on their way to the server
C12_Witness ==
    /\ \E i \in DOMAIN newRows :
          /\ Get(newRows[i], editorPkName) \in DraftIds
          /\ Get(newRows[i], c_a) = Str(<<"2">>)
    /\ \E k \in DOMAIN net :
          /\ net[k].req.op = "insert"
          /\ net[k].req.body = <<Entry(c_a, Str(<<"2">>))>>

\* the handler of net[k] returns in this step
Returns(k) == net' = RemoveAt(net, k)

\* the save of net[k] ends with the server's row merged into the client's copy
EndsMerged(k) ==
    /\ net[k].phase = "call"
    /\ net[k].stage = "response"
    /\ IsOk(net[k].resp.status)
    /\ tableData' = [i \in DOMAIN tableData |->
                        IF Get(tableData[i], editorPkName) = net[k].id
                            THEN Merge(tableData[i], RowOf(net[k].resp.body))
                        ELSE tableData[i]]

\* the save of net[k] ends with the table fetched again and its rows shown
EndsRefetched(k) ==
    /\ net[k].phase = "fetchData"
    /\ net[k].stage = "response"
    /\ net[k].resp.status = 200
    /\ tableData' = net[k].resp.body.data

\* C13: every cell save that was sent ends in one of two ways: a success
\* response is merged into the client's copy of the row, or, after a failure,
\* the table is fetched again and the server's rows are shown; afterwards the
\* edit cache holds no entry for the row.
C13_SaveEndsMergedOrRefetched ==
    [][\A k \in DOMAIN net :
          (net[k].kind = "handleSaveCell" /\ Returns(k))
              => /\ EndsMerged(k) \/ EndsRefetched(k)
                 /\ JsString(net[k].id) \notin DOMAIN editCache']_vars

\* C26: after the user has switched the selected table and every handler that
\* awaited a fetch has returned, the columns and the rows the editor holds are
\* those of the table now selected, in whatever order the responses arrived.
C26_EditorHoldsTheSelectedTable ==
    (net = <<>> /\ selectedTable # NoTable /\ tableColumns # <<>>)
        => /\ tableColumns = ColumnsShownFor(selectedTable)
           /\ \A i \in DOMAIN tableData :
                  DOMAIN tableData[i] =
                      {tableColumns[c].field : c \in DOMAIN tableColumns}

(***************************************************************************)
(* Claims about the editor with one table loaded (SpecLoaded).             *)
(***************************************************************************)
\* the ids of the drafts in a draft list
IdsOf(rows) == {Get(rows[i], editorPkName) : i \in DOMAIN rows}

\* the server has inserted a row for the draft
WasInserted(id) ==
    \E i \in DOMAIN log : log[i].what = "inserted" /\ log[i].id = id

\* the user deletes a draft in this step: no request is made
DraftDeletedByUser ==
    /\ net' = net
    /\ \E id \in IdsOf(newRows) :
           newRows' = SelectSeq(newRows, LAMBDA row : Get(row, editorPkName) # id)

\* C25: while the selected table stays the same, a draft leaves the draft
\* list only when Save New Rows has inserted it or the user has deleted it;
\* a failed cell save on a committed row discards no unsaved draft.
C25_DraftsLeaveOnlySavedOrDeleted ==
    [][(selectedTable' = selectedTable /\ IdsOf(newRows) \ IdsOf(newRows') # {})
          => \/ DraftDeletedByUser
             \/ \A id \in IdsOf(newRows) \ IdsOf(newRows') : WasInserted(id)]_vars

\* C24: over any sequence of Save New Rows actions on one table, retries
\* after a failure included, the server inserts a row for a draft at most
\* once.
C24_DraftInsertedAtMostOnce ==
    \A i, j \in DOMAIN log :
        (i < j /\ log[i].what = "inserted" /\ log[j].what = "inserted")
            => log[i].id # log[j].id

\* the last two entries of the log are cell saves of one row that succeeded,
\* the earlier of them merged while the later was still in flight
TwoSavesRaced ==
    /\ Len(log) >= 2
    /\ LET e1 == log[Len(log) - 1]
           e2 == log[Len(log)]
       IN  /\ e1.what = "saved" /\ e2.what = "saved"
           /\ e1.id = e2.id
           /\ e1.overlap

\* C23: when two cell saves of one committed row were in flight at once and
\* both succeeded, then once both responses are processed the client's copy
\* of the row equals the server's row, whatever the order in which the server
\* handled the requests and the responses arrived.
C23_RacingSavesEndInTheServersRow ==
    (net = <<>> /\ TwoSavesRaced)
        => LET id     == log[Len(log)].id
               listed == ListOutcome(db, selectedTable).body.data
           IN  \A i \in DOMAIN tableData : \A s \in DOMAIN listed :
                   (Get(tableData[i], editorPkName) = id
                        /\ Get(listed[s], editorPkName) = id)
                       => tableData[i] = listed[s]

(***************************************************************************)
(* Claims about a batch run (SpecBatch).                                   *)
(***************************************************************************)
\* a run of handleExecuteQuery is under way or has just ended
InRun == stmtIndex # -1

\* the loop is over
RunEnded == InRun /\ ~loading

IsPrefix(s, t) == Len(s) <= Len(t) /\ s = SubSeq(t, 1, Len(s))

FailedAt(i) == i \in DOMAIN received /\ ~received[i].ok

\* the affected-row counts among outcomes 1..n: a success that returned a
\* count gives its count, a row set or a failure gives nothing
RECURSIVE SumOfCounts(_, _)
SumOfCounts(outcomes, n) ==
    IF n = 0 THEN 0
    ELSE SumOfCounts(outcomes, n - 1)
         + (IF outcomes[n].ok /\ "rowCount" \in DOMAIN outcomes[n].data
                THEN outcomes[n].data.rowCount ELSE 0)

\* C1: the statements a run sends are a prefix of splitQueries(blob), in
\* order; a statement is sent only once every earlier one has its outcome;
\* nothing is sent after a failure; and the run ends having sent the list up
\* to and including the first failing statement, or all of it if none fails.
C1_SendsPrefixUpToFirstFailure ==
    InRun =>
        /\ IsPrefix(sent, splitQueries(blob))
        /\ \A i \in DOMAIN received : received[i].statement = sent[i]
        /\ Len(sent) = Len(received) + (IF wire # NoWire THEN 1 ELSE 0)
        /\ \A i \in DOMAIN received : FailedAt(i) => Len(sent) = i
        /\ RunEnded =>
              \/ FailedAt(Len(sent))
              \/ sent = splitQueries(blob)

\* a two-statement batch whose first statement failed: the run is over and
\* the second statement was not sent
C1_Witness ==
    /\ RunEnded
    /\ Len(splitQueries(blob)) = 2
    /\ sent = <<splitQueries(blob)[1]>>
    /\ FailedAt(1)

\* C2: during a run and at its end the running total is the sum of the counts
\* returned by the statements that succeeded so far, it is never negative,
\* and a summary shown at the end carries that total.
C2_TotalIsSumOfReturnedCounts ==
    InRun =>
        /\ totalRowCount = SumOfCounts(received, Len(received))
        /\ totalRowCount >= 0
        /\ (RunEnded /\ results # None /\ results.type = "success")
              => results.rowCount = SumOfCounts(received, Len(received))

\* a statement returned rows after another had returned a count above zero
C2_Witness ==
    /\ RunEnded
    /\ Len(received) = 2
    /\ received[1].ok /\ "rowCount" \in DOMAIN received[1].data
    /\ received[1].data.rowCount > 0
    /\ received[2].ok /\ "rows" \in DOMAIN received[2].data
    /\ Len(received[2].data.rows) > 0
    /\ totalRowCount = received[1].data.rowCount

\* the first statement of the run that failed, if one has
SomeFailed   == \E i \in DOMAIN received : FailedAt(i)
FirstFailure == CHOOSE i \in DOMAIN received :
                    FailedAt(i) /\ \A j \in DOMAIN received : FailedAt(j) => i <= j

\* the failure came from the server's answer, not from the network
ServerRefused(i) == FailedAt(i) /\ received[i].reached /\ received[i].data.error # "Failed to fetch"

\* the database after statements 1..n were handled in order, one by one
RECURSIVE AppliedInOrder(_, _, _)
AppliedInOrder(d, statements, n) ==
    IF n = 0 THEN d
    ELSE QueryOutcome(AppliedInOrder(d, statements, n - 1), statements[n]).db

RanWithoutFailure == RunEnded /\ received # <<>> /\ ~SomeFailed

LastOutcome == received[Len(received)]

\* C15 as claimed: after a run without failure the result is the row set of
\* the last statement exactly when that statement was a QUERY; otherwise it is
\* a summary with the total of affected rows and the number of statements run.
C15_RowSetOrSummaryWithTally ==
    RanWithoutFailure =>
        IF ~isExecute(LastOutcome.statement)
            THEN results = [type |-> "data", data |-> LastOutcome.data.rows,
                            columns |-> LastOutcome.data.columns]
        ELSE /\ results.type = "success"
             /\ results.rowCount = SumOfCounts(received, Len(received))
             /\ results.message.n = Len(received)

\* C15 amended: as claimed, except that the summary quotes the number of
\* statements only for a batch of several statements whose last one is not a
\* CREATE, DROP or ALTER.
C15_RowSetOrSummary ==
    RanWithoutFailure =>
        /\ Len(received) = Len(splitQueries(blob))
        /\ IF ~isExecute(LastOutcome.statement)
               THEN results = [type |-> "data", data |-> LastOutcome.data.rows,
                               columns |-> LastOutcome.data.columns]
           ELSE /\ results.type = "success"
                /\ results.rowCount = SumOfCounts(received, Len(received))
                /\ results.message.n =
                      IF Len(received) > 1 /\ ~isDDL(LastOutcome.statement)
                          THEN Len(received) ELSE 0

\* a statement that returned rows, then one that changed a row: the summary
\* of two statements is shown, not the rows
C15_Witness ==
    /\ RanWithoutFailure
    /\ Len(received) = 2
    /\ "rows" \in DOMAIN received[1].data /\ received[1].data.rows # <<>>
    /\ "rowCount" \in DOMAIN received[2].data /\ received[2].data.rowCount > 0
    /\ results.type = "success"
    /\ results.message.n = 2

\* what the engine answers to statement k of the run, given the statements
\* before it
EngineAnswer(k) ==
    EngineRaw(AppliedInOrder(dbAtClick, splitQueries(blob), k - 1),
              splitQueries(blob)[k])

C17_NoStatementsFailsAtOnce ==
    [][(stmtIndex = -1 /\ stmtIndex' # -1 /\ splitQueries(blob') = <<>>)
          => /\ error' = NoStatementsError
             /\ results' = results
             /\ wire' = NoWire
             /\ sent' = <<>>
             /\ ~loading'
             /\ db' = db]_vars

\* the handler has returned on a text of semicolons and white space, and the
\* rows of an earlier run are still shown
C17_Witness ==
    /\ stmtIndex = 0
    /\ blob = <<SEMI, " ", SEMI, "\n">>
    /\ error = NoStatementsError
    /\ results # None /\ results.type = "data"
    /\ wire = NoWire

(***************************************************************************)
(* Claims about single calls (SpecCalls).                                  *)
(***************************************************************************)
Returned(fn) == call.fn = fn /\ call.ret # <<>>

WordCharacters ==
    {"a", "b", "c", "d", "e", "f", "g", "h", "i", "j", "k", "l", "m",
     "n", "o", "p", "q", "r", "s", "t", "u", "v", "w", "x", "y", "z",
     "A", "B", "C", "D", "E", "F", "G", "H", "I", "J", "K", "L", "M",
     "N", "O", "P", "Q", "R", "S", "T", "U", "V", "W", "X", "Y", "Z",
     "0", "1", "2", "3", "4", "5", "6", "7", "8", "9", "_"}

\* the first word of a text: the word characters that follow its leading
\* white space
FirstToken(s) ==
    LET rest == IF \E i \in 1..Len(s) : ~IsSpace(s[i])
                    THEN SubSeq(s, CHOOSE i \in 1..Len(s) :
                                       ~IsSpace(s[i]) /\ \A j \in 1..(i - 1) : IsSpace(s[j]),
                                Len(s))
                ELSE <<>>
        n    == Cardinality({i \in 1..Len(rest) : \A j \in 1..i : rest[j] \in WordCharacters})
    IN  SubSeq(rest, 1, n)

\* C18 as claimed: a statement is classified MUTATING exactly when its first
\* word, in upper case, is one of the seven keywords.
C18_MutatingIffFirstTokenIsKeyword ==
    Returned("isExecute") =>
        (call.ret[1] <=> ToUpper(FirstToken(call.arg)) \in MutationKeywords)

\* C18 amended: a statement is classified MUTATING exactly when its first
\* word, in upper case, begins with one of the seven keywords.
C18_MutatingIffFirstTokenBeginsWithKeyword ==
    Returned("isExecute") =>
        (call.ret[1] <=>
            \E k \in MutationKeywords :
                LET word == ToUpper(FirstToken(call.arg))
                IN  Len(word) >= Len(k) /\ \A i \in 1..Len(k) : word[i] = k[i])

\* "delete P" in lower case behind two characters of white space is MUTATING
C18_Witness ==
    /\ Returned("isExecute")
    /\ call.arg = <<" ", "\n">> \o ToLower(K_DELETE) \o SP \o T_P
    /\ call.ret[1]

\* C19: each identifier check returns the name exactly when the name is not
\* empty and all its characters are ASCII letters, digits or underscores, and
\* throws its invalid-name error otherwise; the two checks accept the same names.
C19_IdentifierCheckAcceptsWordsOnly ==
    Returned("sanitize") =>
        LET accepted == /\ call.arg # <<>>
                        /\ \A i \in 1..Len(call.arg) : call.arg[i] \in WordCharacters
        IN  /\ call.ret[1].table = IF accepted THEN "returned"
                                   ELSE "Invalid table name format"
            /\ call.ret[1].column = IF accepted THEN "returned"
                                    ELSE "Invalid column name"
            /\ (call.ret[1].table = "returned") <=> (call.ret[1].column = "returned")

\* a name that ends in a quote is refused by both checks
C19_Witness ==
    /\ Returned("sanitize")
    /\ call.arg = <<"a", "_", QUOTE>>
    /\ call.ret[1].table = "Invalid table name format"
    /\ call.ret[1].column = "Invalid column name"

(***************************************************************************)
(* Claims about safeTypeConvert (SpecConvert).                             *)
(***************************************************************************)
\* null, the empty string, or "null" in any letter case
NullLikeRaw(value) ==
    \/ value = NULL
    \/ /\ value.t = "string"
       /\ \/ value.v = <<>>
          \/ ToUpper(value.v) = <<"N", "U", "L", "L">>

\* C21: whatever the declared type, safeTypeConvert returns null for a raw
\* value that is null, the empty string or "null" in any letter case.
C21_NullLikeConvertsToNull ==
    (Returned("safeTypeConvert") /\ NullLikeRaw(call.arg.value))
        => call.ret[1] = NULL

\* "NULL" came back as null for a boolean column, whose own rule would have
\* made it true
C21_Witness ==
    /\ Returned("safeTypeConvert")
    /\ call.arg.value = Str(<<"N", "U", "L", "L">>)
    /\ call.arg.columnType = "Boolean"
    /\ call.ret[1] = NULL

\* the names PRAGMA table_info gives for columns of the integer family
NativeIntegerTypes == {"INTEGER", "BIGINT"}

\* C22: for a column whose engine-native declared type is of the integer
\* family, safeTypeConvert of a raw value that is not null-like returns an
\* integer or null, never a string.
C22_IntegerColumnConvertsToIntegerOrNull ==
    (/\ Returned("safeTypeConvert")
     /\ call.arg.columnType \in NativeIntegerTypes
     /\ ~NullLikeRaw(call.arg.value))
        => call.ret[1].t \in {"number", "null"}

=============================================================================
